---- MODULE Spec2Model ----
(***************************************************************************)
(* The three document generators of the repository as one state machine:   *)
(*   gen_complaint.py   main() -> generate_civil_action_pdf(output_file)    *)
(*   gen_cover.py       __main__ -> create_civil_cover_sheet(...)           *)
(*   gen_fee_waiver.py  main() -> generate_fee_waiver_request(output_pdf)   *)
(* One invocation executes the statements of its script top to bottom; pc   *)
(* is the position in the statement listing, one action per statement kind. *)
(* Lengths are integers in 1/100 pt (1 pt = 100, 1 inch = 7200).  A string  *)
(* is a sequence of tokens, so that concatenation and "contains" are real   *)
(* sequence operations; long literal texts are abbreviated to their first   *)
(* 40 characters followed by "~".  The token "(bullet) " stands for the     *)
(* bullet glyph U+2022 followed by a space.                                 *)
(***************************************************************************)
EXTENDS Integers, Sequences, FiniteSets, TLC

VARIABLES
    gen,          \* which script runs: "complaint", "cover", "fee"
    sys_argv,     \* sys.argv: script name followed by the positional arguments
    cwd,          \* os.getcwd() of the process
    textArg,      \* the text and start line given to draw_multiline_text when gen = "lines"
    pc,           \* index of the next statement in Prog
    status,       \* "running", "done" (exit 0) or "raised" (uncaught exception)
    error,        \* the exception that ended the run, "" when none
    output_file,  \* the path main() passes to the generator function
    doc,          \* <<>> or <<the SimpleDocTemplate / Canvas: filename and keywords>>
    styleObjs,    \* the style objects created so far, in creation order
    bind,         \* variable or styles[...] key -> index into styleObjs
    story,        \* the flowables list (story / content)
    appendLog,    \* every argument of story.append, in call order
    tables,       \* table variable -> Table object
    loopIdx,      \* items already visited by the running for loop
    submitted,    \* the list handed to doc.build
    buildCalls,   \* number of doc.build / pdf.save calls made
    pageOf,       \* page number of every submitted flowable after a successful build
    files,        \* the paths written by a successful build / save
    printed,      \* the messages printed, in order
    font,         \* canvas font state (fee waiver)
    y_top,        \* vertical cursor (fee waiver)
    y_local,      \* the parameter y of draw_multiline_text while it runs
    draws,        \* drawString calls made: position, text, font
    showPages,    \* number of showPage calls
    trace,        \* kinds of the statements executed, in order
    calls,        \* calls of the generator function made by this process
    written,      \* path -> content of the file a successful build / save wrote there
    history       \* one record per completed earlier call of the generator function

vars == <<gen, sys_argv, cwd, textArg, pc, status, error, output_file, doc,
          styleObjs, bind, story, appendLog, tables, loopIdx, submitted, buildCalls,
          pageOf, files, printed, font, y_top, y_local, draws, showPages, trace,
          calls, written, history>>

(***************************************************************************)
(* Bounds of the model.                                                    *)
(***************************************************************************)
MaxArgs == 1          \* positional arguments given on the command line
MaxBlockHeight == 2   \* laid-out height of a flowable, in abstract units
MaxCalls == 2         \* calls of the generator function in one process
MaxSegs == 2          \* newline-separated segments of an arbitrary text
MaxWords == 3         \* words of one segment of an arbitrary text
MaxSkip == 1          \* lines the cursor is below the top margin when the text starts

(***************************************************************************)
(* Program constants.                                                      *)
(***************************************************************************)
Inch == 7200
LetterWidth == 61200
LetterHeight == 79200
LineSpacing == 1400
max_width == 50000

BulletGlyph == <<"(bullet) ">>

DefaultComplaint == <<"CivilActionComplaint.pdf">>
DefaultCover == <<"CivilActionCoverSheet.pdf">>
DefaultFee == <<"Fee_Waiver_Request_Bo_Shang.pdf">>

(***************************************************************************)
(* Sequences and strings.                                                  *)
(***************************************************************************)
Range(s) == {s[i] : i \in DOMAIN s}

Last(s) == s[Len(s)]

Front(s) == SubSeq(s, 1, Len(s) - 1)

\* a occurs in b as a contiguous run of tokens (Python: a in b)
IsInfix(a, b) == \E i \in 0..(Len(b) - Len(a)) : SubSeq(b, i + 1, i + Len(a)) = a

\* a changed list.append: list.insert(0, x)
ListAppend_front(list, x) == <<x>> \o list

\* list.append(x)
ListAppend(list, x) == Append(list, x)

(***************************************************************************)
(* Paths: token sequences in which "/" is the separator.                   *)
(***************************************************************************)
IsAbs(p) == Len(p) > 0 /\ p[1] = "/"

RECURSIVE Components(_)
Components(p) ==
    IF p = <<>> THEN <<>>
    ELSE IF Head(p) = "/" THEN Components(Tail(p))
         ELSE <<Head(p)>> \o Components(Tail(p))

RECURSIVE NormParts(_, _, _)
NormParts(parts, abs, acc) ==
    IF parts = <<>> THEN acc
    ELSE LET t == Head(parts)
             rest == Tail(parts)
         IN  IF t = "." THEN NormParts(rest, abs, acc)
             ELSE IF t = ".."
                  THEN IF acc # <<>> /\ Last(acc) # ".."
                       THEN NormParts(rest, abs, Front(acc))
                       ELSE IF abs THEN NormParts(rest, abs, acc)
                            ELSE NormParts(rest, abs, Append(acc, ".."))
                  ELSE NormParts(rest, abs, Append(acc, t))

RECURSIVE JoinParts(_)
JoinParts(parts) ==
    IF Len(parts) <= 1 THEN parts
    ELSE <<Head(parts), "/">> \o JoinParts(Tail(parts))

\* the leading slashes normpath keeps: exactly two stay two, any other number is one
InitialSlashes(p) ==
    IF ~IsAbs(p) THEN <<>>
    ELSE IF Len(p) >= 2 /\ p[2] = "/" /\ ~(Len(p) >= 3 /\ p[3] = "/") THEN <<"/", "/">>
         ELSE <<"/">>

\* os.path.normpath
Normpath(p) ==
    LET parts == NormParts(Components(p), IsAbs(p), <<>>)
    IN  IF IsAbs(p) THEN InitialSlashes(p) \o JoinParts(parts)
        ELSE IF parts = <<>> THEN <<".">> ELSE JoinParts(parts)

\* os.path.join(a, b)
PathJoin(a, b) ==
    IF IsAbs(b) THEN b
    ELSE IF a = <<>> \/ Last(a) = "/" THEN a \o b
         ELSE a \o <<"/">> \o b

\* os.path.abspath(p) in a process whose working directory is d
Abspath(d, p) == Normpath(PathJoin(d, p))

(***************************************************************************)
(* Flowables.  A Paragraph holds a reference to its style object (an index  *)
(* into styleObjs); Spacer and PageBreak hold none (style = 0).  A Table    *)
(* appended through its variable is held by reference (ref), as Python      *)
(* lists hold references.                                                   *)
(***************************************************************************)
NoStyle == 0

\* the expression Paragraph(text, styleVar) as written in the source
Paragraph(text, styleRef) ==
    [kind |-> "Paragraph", text |-> text, styleRef |-> styleRef, width |-> 0, height |-> 0]

Spacer(w, h) ==
    [kind |-> "Spacer", text |-> <<>>, styleRef |-> "", width |-> w, height |-> h]

PageBreak ==
    [kind |-> "PageBreak", text |-> <<>>, styleRef |-> "", width |-> 0, height |-> 0]

\* a changed loop body: the item without the glyph
BulletParagraph_noGlyph(bp, styleRef) == Paragraph(bp, styleRef)

\* a changed loop body: a style variable that was never assigned
BulletParagraph_wrongStyle(bp, styleRef) == Paragraph(BulletGlyph \o bp, "style_bullet")

\* f"(bullet) {bp}" with the loop's style
BulletParagraph(bp, styleRef) == Paragraph(BulletGlyph \o bp, styleRef)

\* the references an expression needs resolved before it can be evaluated
Resolves(b, env) == b.kind = "Paragraph" => b.styleRef \in DOMAIN env

\* the flowable object the expression evaluates to
Evaluate(b, env) ==
    [kind |-> b.kind, text |-> b.text,
     style |-> IF b.kind = "Paragraph" THEN env[b.styleRef] ELSE NoStyle,
     width |-> b.width, height |-> b.height, ref |-> ""]

TableRef(var) ==
    [kind |-> "Table", text |-> <<>>, style |-> NoStyle, width |-> 0, height |-> 0, ref |-> var]

\* a changed Table call: one column width too few
Table_dropWidth(data, kw) ==
    [data |-> data, colWidths |-> Tail(kw.colWidths), hAlign |-> kw.hAlign, cmds |-> <<>>]

\* Table(data, hAlign=..., colWidths=...)
Table(data, kw) ==
    [data |-> data, colWidths |-> kw.colWidths, hAlign |-> kw.hAlign, cmds |-> <<>>]

\* a changed setStyle: the table is built again from the commands alone
setStyle_rebuilds(t, cmds) ==
    [data |-> <<>>, colWidths |-> t.colWidths, hAlign |-> t.hAlign, cmds |-> cmds]

\* t.setStyle(TableStyle(cmds)): the commands are added to those the table holds
setStyle(t, cmds) == [t EXCEPT !.cmds = @ \o cmds]

RowsResolve(data, env) ==
    \A r \in DOMAIN data : \A c \in DOMAIN data[r] : Resolves(data[r][c], env)

EvaluateRows(data, env) ==
    [r \in DOMAIN data |-> [c \in DOMAIN data[r] |-> Evaluate(data[r][c], env)]]

(***************************************************************************)
(* Styles.  ParagraphStyle(name, parent=..., **kw) creates a style object;  *)
(* nothing is looked up or checked by name.                                 *)
(***************************************************************************)
\* a changed constructor: the parent is not recorded
ParagraphStyle_noParent(name, parent, kw) == [name |-> name, parent |-> 0, kw |-> kw]

ParagraphStyle(name, parent, kw) == [name |-> name, parent |-> parent, kw |-> kw]

\* the style objects after one more ParagraphStyle(...) call
DefineStyle(objs, name, parent, kw) == Append(objs, ParagraphStyle(name, parent, kw))

\* var = <object number idx>
Bind(env, var, idx) == (var :> idx) @@ env

\* getSampleStyleSheet(): the sample styles the generators use, placed after base objects
SampleStyles(base) ==
    << ParagraphStyle("Normal", 0, [fontName |-> "Helvetica", fontSize |-> 1000, leading |-> 1200]),
       ParagraphStyle("Heading1", base + 1,
                      [fontName |-> "Helvetica-Bold", fontSize |-> 1800, leading |-> 2200,
                       spaceAfter |-> 600]),
       ParagraphStyle("Heading2", base + 1,
                      [fontName |-> "Helvetica-Bold", fontSize |-> 1400, leading |-> 1800,
                       spaceBefore |-> 1200, spaceAfter |-> 600]),
       ParagraphStyle("Title", base + 1,
                      [fontName |-> "Helvetica-Bold", fontSize |-> 1800, leading |-> 2200,
                       alignment |-> 1, spaceAfter |-> 600]) >>

SampleBindings(base) ==
    ("styles[Normal]" :> base + 1) @@ ("styles[Heading1]" :> base + 2)
        @@ ("styles[Heading2]" :> base + 3) @@ ("styles[Title]" :> base + 4)

\* the attributes a style object holds once constructed: its own keywords over
\* those its parent held (the constructor copies the parent's, then sets its own)
RECURSIVE StyleAttrs(_, _)
StyleAttrs(objs, i) ==
    IF i \notin DOMAIN objs THEN <<>>
    ELSE objs[i].kw @@ StyleAttrs(objs, objs[i].parent)

\* the chain of parents of a style object, nearest first
RECURSIVE Ancestors(_, _)
Ancestors(objs, i) ==
    IF i \notin DOMAIN objs \/ objs[i].parent \notin DOMAIN objs THEN <<>>
    ELSE <<objs[i].parent>> \o Ancestors(objs, objs[i].parent)

(***************************************************************************)
(* What a build reads of a flowable: its own fields, the name and           *)
(* attributes of its style, and for a Table the table object it refers to.  *)
(***************************************************************************)
StyleValue(objs, i) ==
    IF i = NoStyle THEN <<>> ELSE <<objs[i].name, StyleAttrs(objs, i)>>

FlowableValue(b, objs) ==
    [kind |-> b.kind, text |-> b.text, style |-> StyleValue(objs, b.style),
     width |-> b.width, height |-> b.height]

TableValue(t, objs) ==
    [data |-> [r \in DOMAIN t.data |->
                  [c \in DOMAIN t.data[r] |-> FlowableValue(t.data[r][c], objs)]],
     colWidths |-> t.colWidths, hAlign |-> t.hAlign, cmds |-> t.cmds]

StoryValue(list, objs, tabs) ==
    [i \in DOMAIN list |->
        IF list[i].kind = "Table"
        THEN [kind |-> "Table", table |-> TableValue(tabs[list[i].ref], objs)]
        ELSE FlowableValue(list[i], objs)]

(***************************************************************************)
(* Statements of the listings.                                             *)
(***************************************************************************)
S_Main == [op |-> "main"]
S_Doc(kw) == [op |-> "doc", kw |-> kw]
S_Sheet == [op |-> "sheet"]
S_Alias(var, ref) == [op |-> "alias", var |-> var, ref |-> ref]
S_Style(var, name, parent, kw) ==
    [op |-> "style", var |-> var, name |-> name, parent |-> parent, kw |-> kw]
S_NewList == [op |-> "list"]
S_Append(b) == [op |-> "append", block |-> b]
S_AppendVar(var) == [op |-> "appendVar", var |-> var]
S_For(items, styleRef) == [op |-> "for", items |-> items, styleRef |-> styleRef]
S_Table(var, data, kw) == [op |-> "table", var |-> var, data |-> data, kw |-> kw]
S_SetStyle(var, cmds) == [op |-> "setStyle", var |-> var, cmds |-> cmds]
S_Build == [op |-> "build"]
S_Print == [op |-> "print"]
S_Canvas == [op |-> "canvas"]
S_SetTitle(t) == [op |-> "setTitle", text |-> t]
S_Geometry == [op |-> "geometry"]
S_SetFont(name, size) == [op |-> "setFont", name |-> name, size |-> size]
S_DrawString(t) == [op |-> "drawString", text |-> t]
S_Move(k) == [op |-> "move", lines |-> k]
S_Multiline(segs) == [op |-> "multiline", segs |-> segs]
S_ShowPage == [op |-> "showPage"]
S_Save == [op |-> "save"]
S_PrintAbs == [op |-> "printAbs"]

(***************************************************************************)
(* gen_complaint.py, generate_civil_action_pdf, and gen_cover.py,           *)
(* create_civil_cover_sheet, statement by statement.                        *)
(***************************************************************************)
ComplaintSetup ==
    << S_Doc([pagesize |-> <<61200, 79200>>, leftMargin |-> 7200, rightMargin |-> 7200, topMargin |-> 5400, bottomMargin |-> 5400, title |-> "Civil Action Complaint", author |-> "Bo Shang", subject |-> "Complaint for Damages, Injunctive Relief, and Other Relief"]),
       S_Sheet >>

ComplaintStyles ==
    << S_Style("style_title", "TitleStyle", "styles[Title]", [fontSize |-> 1600, leading |-> 2000, alignment |-> 1, spaceAfter |-> 1200]),
       S_Style("style_subtitle", "SubtitleStyle", "styles[Title]", [fontSize |-> 1400, leading |-> 1800, alignment |-> 1, spaceAfter |-> 600]),
       S_Style("style_heading", "HeadingStyle", "styles[Heading1]", [fontSize |-> 1200, leading |-> 1400, spaceAfter |-> 600, spaceBefore |-> 1200]),
       S_Style("style_paragraph", "ParagraphStyle", "styles[Normal]", [fontSize |-> 1050, leading |-> 1400, alignment |-> 4, spaceAfter |-> 600]),
       S_Style("style_paragraph_indent", "ParagraphIndentStyle", "style_paragraph", [leftIndent |-> 2000]),
       S_Style("style_bulleted_list", "BulletedListStyle", "style_paragraph", [bulletIndent |-> 2000, leftIndent |-> 4000, bulletFontName |-> "Helvetica", bulletFontSize |-> 1050, leading |-> 1400]),
       S_Style("style_paragraph_centered", "CenteredParagraphStyle", "style_paragraph", [alignment |-> 1]) >>

ComplaintCaption ==
    << S_NewList,
       S_Append(Paragraph(<<"SUPERIOR COURT OF WASHINGTON<br/>FOR KIN~">>, "style_title")),
       S_Append(Spacer(100, 400)),
       S_Append(Paragraph(<<"BO SHANG, an individual,<br/>Plaintiff,<~">>, "style_paragraph_centered")),
       S_Append(Spacer(100, 1200)),
       S_Append(Paragraph(<<"COMPLAINT FOR DAMAGES, INJUNCTIVE RELIEF~">>, "style_subtitle")),
       S_Append(Spacer(100, 2400)) >>

ComplaintIntroduction ==
    << S_Append(Paragraph(<<"I. INTRODUCTION">>, "style_heading")),
       S_Append(Paragraph(<<"1. Plaintiff, Bo Shang ('Plaintiff'), br~">>, "style_paragraph")),
       S_For(<<<<"Required Plaintiff to drop off the retur~">>,
        <<"Imposed a 20% restocking fee due to a pu~">>>>, "style_bulleted_list"),
       S_Append(Paragraph(<<"2. Plaintiff seeks compensatory damages,~">>, "style_paragraph")) >>

ComplaintJurisdictionParties ==
    << S_Append(Paragraph(<<"II. JURISDICTION AND VENUE">>, "style_heading")),
       S_Append(Paragraph(<<"3. Subject Matter Jurisdiction: This Cou~">>, "style_paragraph")),
       S_Append(Paragraph(<<"4. Personal Jurisdiction: Defendant Amaz~">>, "style_paragraph")),
       S_Append(Paragraph(<<"5. Venue: Venue is proper in King County~">>, "style_paragraph")),
       S_Append(Paragraph(<<"III. PARTIES">>, "style_heading")),
       S_Append(Paragraph(<<"6. Plaintiff, Bo Shang ('Plaintiff'), is~">>, "style_paragraph")),
       S_Append(Paragraph(<<"7. Defendant, Amazon.com, Inc. ('Amazon'~">>, "style_paragraph")) >>

ComplaintFacts ==
    << S_Append(Paragraph(<<"IV. FACTUAL BACKGROUND">>, "style_heading")),
       S_Append(Paragraph(<<"8. Purchase and Discovery of Stolen Stat~">>, "style_paragraph")),
       S_For(<<<<"On or about [date of purchase], Plaintif~">>,
        <<"Plaintiff received and used the phone bu~">>>>, "style_bulleted_list"),
       S_Append(Paragraph(<<"9. Notification to Amazon:">>, "style_paragraph")),
       S_For(<<<<"Plaintiff promptly informed Amazon Custo~">>,
        <<"Amazon instructed Plaintiff to drop off ~">>>>, "style_bulleted_list"),
       S_Append(Paragraph(<<"10. Restocking Fee Imposed:">>, "style_paragraph")),
       S_For(<<<<"Amazon refused to process the return wit~">>,
        <<"Plaintiff contends that the stolen statu~">>>>, "style_bulleted_list"),
       S_Append(Paragraph(<<"11. Harm to Plaintiff:">>, "style_paragraph")),
       S_For(<<<<"Plaintiff relied on Amazon's representat~">>,
        <<"Plaintiff incurred financial, legal, and~">>>>, "style_bulleted_list"),
       S_Append(Paragraph(<<"12. Amazon's Role and Representations:">>, "style_paragraph")),
       S_For(<<<<"By labeling the Pixel 7A purchase with '~">>,
        <<"Plaintiff contends Amazon either owned t~">>,
        <<"In numerous marketing statements, Amazon~">>>>, "style_bulleted_list") >>

ComplaintCounts ==
    << S_Append(Paragraph(<<"V. CAUSES OF ACTION">>, "style_heading")),
       S_Append(Paragraph(<<"Plaintiff realleges and incorporates by ~">>, "style_paragraph")),
       S_Append(Paragraph(<<"COUNT I - VIOLATION OF THE WASHINGTON CO~">>, "style_heading")),
       S_Append(Paragraph(<<"13. The Washington Consumer Protection A~">>, "style_paragraph")),
       S_Append(Paragraph(<<"14. Defendant, by enabling the sale of s~">>, "style_paragraph")),
       S_Append(Paragraph(<<"15. Case Law Support:<br/>(bullet) <i>Ha~">>, "style_paragraph")),
       S_Append(Paragraph(<<"16. Amazon's acts and omissions proximat~">>, "style_paragraph")),
       S_Append(Paragraph(<<"17. Pursuant to RCW 19.86.090, Plaintiff~">>, "style_paragraph")),
       S_Append(Paragraph(<<"COUNT II - BREACH OF IMPLIED WARRANTY OF~">>, "style_heading")),
       S_Append(Paragraph(<<"18. Under RCW 62A.2-314, every contract ~">>, "style_paragraph")),
       S_Append(Paragraph(<<"19. By advertising and fulfilling the sa~">>, "style_paragraph")),
       S_Append(Paragraph(<<"20. Case Law Support:<br/>(bullet) <i>Ba~">>, "style_paragraph")),
       S_Append(Paragraph(<<"21. As a direct and proximate result of ~">>, "style_paragraph")),
       S_Append(Paragraph(<<"COUNT III - NEGLIGENCE / NEGLIGENT MISRE~">>, "style_heading")),
       S_Append(Paragraph(<<"22. Defendant owed a duty of care to Pla~">>, "style_paragraph")),
       S_Append(Paragraph(<<"23. Defendant breached this duty by fail~">>, "style_paragraph")),
       S_Append(Paragraph(<<"24. Case Law Support:<br/>(bullet) <i>Mb~">>, "style_paragraph")),
       S_Append(Paragraph(<<"25. Plaintiff relied on Amazon's stateme~">>, "style_paragraph")),
       S_Append(Paragraph(<<"26. This reliance was justifiable given ~">>, "style_paragraph")) >>

ComplaintRelief ==
    << S_Append(Paragraph(<<"VI. DAMAGES AND RELIEF SOUGHT">>, "style_heading")),
       S_Append(Paragraph(<<"WHEREFORE, Plaintiff respectfully reques~">>, "style_paragraph")),
       S_For(<<<<"1. Compensatory Damages: For all losses,~">>,
        <<"2. Treble Damages: As allowed under RCW ~">>,
        <<"3. Injunctive Relief: <br/>(bullet) Enjo~">>,
        <<"4. Attorneys' Fees and Costs: Pursuant t~">>,
        <<"5. Pre- and Post-Judgment Interest: As p~">>,
        <<"6. Such Other and Further Relief as the ~">>>>, "style_bulleted_list"),
       S_Append(Paragraph(<<"VII. JURY DEMAND">>, "style_heading")),
       S_Append(Paragraph(<<"Pursuant to CR 38 of the Washington Supe~">>, "style_paragraph")),
       S_Append(Paragraph(<<"PRAYER FOR RELIEF">>, "style_heading")),
       S_Append(Paragraph(<<"WHEREFORE, Plaintiff, Bo Shang, prays fo~">>, "style_paragraph")),
       S_Append(Spacer(100, 1200)),
       S_Append(Paragraph(<<"DATED this 4 day of Feb, 2025.<br/><br/>~">>, "style_paragraph")) >>

\* a changed exhibits section: the page break closes each exhibit instead of opening it
ComplaintExhibits_breakAfter ==
    << S_Append(Paragraph(<<"EXHIBIT 1:">>, "style_heading")),
       S_Append(Spacer(100, 1200)),
       S_Append(Paragraph(<<"Placeholder for Exhibit 1 content (e.g.,~">>, "style_paragraph")),
       S_Append(PageBreak),
       S_Append(Paragraph(<<"EXHIBIT 2:">>, "style_heading")),
       S_Append(Spacer(100, 1200)),
       S_Append(Paragraph(<<"Placeholder for Exhibit 2 content.">>, "style_paragraph")),
       S_Append(PageBreak),
       S_Append(Paragraph(<<"EXHIBIT 3:">>, "style_heading")),
       S_Append(Spacer(100, 1200)),
       S_Append(Paragraph(<<"Placeholder for Exhibit 3 content.">>, "style_paragraph")),
       S_Append(PageBreak),
       S_Append(Paragraph(<<"EXHIBIT 4:">>, "style_heading")),
       S_Append(Spacer(100, 1200)),
       S_Append(Paragraph(<<"Placeholder for Exhibit 4 content.">>, "style_paragraph")),
       S_Append(PageBreak) >>

ComplaintExhibits ==
    << S_Append(PageBreak),
       S_Append(Paragraph(<<"EXHIBIT 1:">>, "style_heading")),
       S_Append(Spacer(100, 1200)),
       S_Append(Paragraph(<<"Placeholder for Exhibit 1 content (e.g.,~">>, "style_paragraph")),
       S_Append(PageBreak),
       S_Append(Paragraph(<<"EXHIBIT 2:">>, "style_heading")),
       S_Append(Spacer(100, 1200)),
       S_Append(Paragraph(<<"Placeholder for Exhibit 2 content.">>, "style_paragraph")),
       S_Append(PageBreak),
       S_Append(Paragraph(<<"EXHIBIT 3:">>, "style_heading")),
       S_Append(Spacer(100, 1200)),
       S_Append(Paragraph(<<"Placeholder for Exhibit 3 content.">>, "style_paragraph")),
       S_Append(PageBreak),
       S_Append(Paragraph(<<"EXHIBIT 4:">>, "style_heading")),
       S_Append(Spacer(100, 1200)),
       S_Append(Paragraph(<<"Placeholder for Exhibit 4 content.">>, "style_paragraph")) >>

\* a changed tail: the build is run a second time
ComplaintTail_twice == << S_Build, S_Build, S_Print >>

ComplaintTail ==
    << S_Build,
       S_Print >>

CoverStyles ==
    << S_Sheet,
       S_Alias("style_normal", "styles[Normal]"),
       S_Alias("style_heading", "styles[Heading1]"),
       S_Alias("style_subheading", "styles[Heading2]"),
       S_Style("style_title", "CoverSheetTitle", "style_heading", [fontSize |-> 1400, leading |-> 1800, alignment |-> 1, spaceAfter |-> 1000]),
       S_Style("style_section", "CoverSheetSection", "style_subheading", [fontSize |-> 1200, leading |-> 1400, spaceBefore |-> 1200, spaceAfter |-> 400]),
       S_Style("style_label", "LabelStyle", "style_normal", [fontSize |-> 1000, leading |-> 1200, textColor |-> "colors.black", spaceAfter |-> 200]),
       S_Style("style_field", "FieldStyle", "style_normal", [fontSize |-> 1000, leading |-> 1200, textColor |-> "colors.black", spaceAfter |-> 500]) >>

\* a changed document setup: side margins of three inches
CoverDoc_wideMargins ==
    << S_Doc([pagesize |-> <<61200, 79200>>, rightMargin |-> 21600, leftMargin |-> 21600, topMargin |-> 7200, bottomMargin |-> 7200]),
       S_NewList >>

CoverDoc ==
    << S_Doc([pagesize |-> <<61200, 79200>>, rightMargin |-> 7200, leftMargin |-> 7200, topMargin |-> 7200, bottomMargin |-> 7200]),
       S_NewList >>

CoverCaseInfo ==
    << S_Append(Paragraph(<<"Superior Court of Washington(nl)For King~">>, "style_title")),
       S_Append(Paragraph(<<"Civil Case Cover Sheet">>, "style_section")),
       S_Append(Spacer(100, 1440)),
       S_Table("case_info_table", <<<<Paragraph(<<"<b>Case Number:</b>">>, "style_label"), Paragraph(<<"___________ (Assigned by Clerk)">>, "style_field")>>,
        <<Paragraph(<<"<b>Case Title:</b>">>, "style_label"), Paragraph(<<"Bo Shang v. Amazon.com, Inc.">>, "style_field")>>,
        <<Paragraph(<<"<b>Date of Filing:</b>">>, "style_label"), Paragraph(<<"February 4, 2025">>, "style_field")>>,
        <<Paragraph(<<"<b>Judge Assigned (if known):</b>">>, "style_label"), Paragraph(<<"">>, "style_field")>>>>, [hAlign |-> "LEFT", colWidths |-> <<14400, 28800>>]),
       S_SetStyle("case_info_table", <<<<"VALIGN", <<0, 0>>, <<-1, -1>>, "TOP">>,
        <<"LINEBELOW", <<0, 0>>, <<-1, -1>>, 25, "colors.black">>,
        <<"BOTTOMPADDING", <<0, 0>>, <<-1, -1>>, 600>>>>),
       S_AppendVar("case_info_table"),
       S_Append(Spacer(100, 2160)) >>

CoverParties ==
    << S_Table("plaintiff_table", <<<<Paragraph(<<"<b>Plaintiff Name(s):</b>">>, "style_label"), Paragraph(<<"1)  Bo Shang">>, "style_field")>>,
        <<Paragraph(<<"<b>Plaintiff Contact Info:</b>">>, "style_label"), Paragraph(<<"10 McCafferty Way<br/>Phone: 781-999-410~">>, "style_field")>>>>, [hAlign |-> "LEFT", colWidths |-> <<14400, 28800>>]),
       S_SetStyle("plaintiff_table", <<<<"VALIGN", <<0, 0>>, <<-1, -1>>, "TOP">>,
        <<"LINEBELOW", <<0, 0>>, <<-1, -1>>, 25, "colors.black">>,
        <<"BOTTOMPADDING", <<0, 0>>, <<-1, -1>>, 600>>>>),
       S_Append(Paragraph(<<"Plaintiff Information">>, "style_section")),
       S_AppendVar("plaintiff_table"),
       S_Append(Spacer(100, 2160)),
       S_Table("defendant_table", <<<<Paragraph(<<"<b>Defendant Name(s):</b>">>, "style_label"), Paragraph(<<"1)  Amazon.com, Inc.">>, "style_field")>>,
        <<Paragraph(<<"<b>Defendant Principal Address:</b>">>, "style_label"), Paragraph(<<"410 Terry Avenue North<br/>Seattle, WA 9~">>, "style_field")>>>>, [hAlign |-> "LEFT", colWidths |-> <<14400, 28800>>]),
       S_SetStyle("defendant_table", <<<<"VALIGN", <<0, 0>>, <<-1, -1>>, "TOP">>,
        <<"LINEBELOW", <<0, 0>>, <<-1, -1>>, 25, "colors.black">>,
        <<"BOTTOMPADDING", <<0, 0>>, <<-1, -1>>, 600>>>>),
       S_Append(Paragraph(<<"Defendant Information">>, "style_section")),
       S_AppendVar("defendant_table"),
       S_Append(Spacer(100, 2160)) >>

CoverNature ==
    << S_Append(Paragraph(<<"Nature of the Suit / Cause of Action">>, "style_section")),
       S_Append(Paragraph(<<"1. Violation of the Washington Consumer ~">>, "style_normal")),
       S_Append(Spacer(100, 2160)),
       S_Table("case_type_table", <<<<Paragraph(<<"<b>Case Type:</b>">>, "style_label"), Paragraph(<<"Civil - Consumer Protection / Contract /~">>, "style_field")>>,
        <<Paragraph(<<"<b>Relief Sought:</b>">>, "style_label"), Paragraph(<<"Compensatory and statutory damages; inju~">>, "style_field")>>>>, [hAlign |-> "LEFT", colWidths |-> <<14400, 28800>>]),
       S_SetStyle("case_type_table", <<<<"VALIGN", <<0, 0>>, <<-1, -1>>, "TOP">>,
        <<"LINEBELOW", <<0, 0>>, <<-1, -1>>, 25, "colors.black">>,
        <<"BOTTOMPADDING", <<0, 0>>, <<-1, -1>>, 600>>>>),
       S_AppendVar("case_type_table"),
       S_Append(Spacer(100, 2160)) >>

CoverProSe ==
    << S_Table("pro_se_table", <<<<Paragraph(<<"<b>Filing Party:</b>">>, "style_label"), Paragraph(<<"Plaintiff, Pro Se">>, "style_field")>>,
        <<Paragraph(<<"<b>Attorney/Pro Se Name:</b>">>, "style_label"), Paragraph(<<"Pro Se: Bo Shang">>, "style_field")>>,
        <<Paragraph(<<"<b>Signature / Date:</b>">>, "style_label"), Paragraph(<<"______________________________  Dated: F~">>, "style_field")>>>>, [hAlign |-> "LEFT", colWidths |-> <<14400, 28800>>]),
       S_SetStyle("pro_se_table", <<<<"VALIGN", <<0, 0>>, <<-1, -1>>, "TOP">>,
        <<"LINEBELOW", <<0, 0>>, <<-1, 0>>, 25, "colors.black">>,
        <<"BOTTOMPADDING", <<0, 0>>, <<-1, -1>>, 600>>>>),
       S_Append(Paragraph(<<"Attorney / Pro Se Information">>, "style_section")),
       S_AppendVar("pro_se_table") >>

CoverTail ==
    << S_Build,
       S_Print >>


ComplaintBody ==
    ComplaintSetup \o ComplaintStyles \o ComplaintCaption \o ComplaintIntroduction
        \o ComplaintJurisdictionParties \o ComplaintFacts \o ComplaintCounts
        \o ComplaintRelief \o ComplaintExhibits \o ComplaintTail

CoverBody ==
    CoverStyles \o CoverDoc \o CoverCaseInfo \o CoverParties \o CoverNature
        \o CoverProSe \o CoverTail

(***************************************************************************)
(* gen_fee_waiver.py, generate_fee_waiver_request.  A text is the sequence  *)
(* of its newline-separated segments; a segment carries the widths of its   *)
(* words in Times-Roman, in thousandths of the font size.                   *)
(***************************************************************************)
Seg(t, ws) == [text |-> <<t>>, words |-> ws]

text_court ==
    << Seg("Superior Court of Washington", <<3444, 2278, 833, 4833>>),
       Seg("County of King", <<2945, 833, 2000>>),
       Seg("Case Number: FW25-000155 SEA", <<1944, 3555, 5833, 1889>>),
       Seg("Case Title: SHANG VS AMAZON INC", <<1944, 2167, 3444, 1278, 4388, 1722>>),
       Seg("", <<>>) >>

text_statement ==
    << Seg("I, the undersigned, hereby request a wai~",
         <<583, 1222, 5138, 2721, 2888, 444, 2721, 833, 1610, 1166, 1222, 6940,
            1971, 333, 1222, 3610, 3721, 1611, 3777, 3166, 1444, 1222, 2666, 778,
            1444, 1222, 2055, 1610, 3056, 4278, 3444, 778, 2722, 2555, 1278, 4749>>),
       Seg("", <<>>),
       Seg("I declare that the following information~",
         <<333, 2887, 1500, 1222, 3889, 4722, 667, 1555, 1444, 3666, 778, 1222,
            1611, 833, 1278, 4666>>),
       Seg("", <<>>),
       Seg("1. Full Name of Applicant: Bo Shang", <<750, 1612, 2388, 833, 4222, 1167, 2500>>),
       Seg("2. Address: 10 McCafferty Way, Burlingto~", <<750, 3555, 1000, 4665, 2138, 4334, 1611, 2500>>),
       Seg("3. Phone Number: 781-999-4101", <<750, 2500, 3555, 5666>>),
       Seg("4. Date of Birth: 06/06/1988", <<750, 1888, 833, 2334, 4556>>),
       Seg("5. Government Assistance Received: MA Me~", <<750, 4999, 4277, 3999, 1611, 3777, 3332>>),
       Seg("", <<>>),
       Seg("I understand that by requesting this fee~",
         <<333, 4388, 1500, 1000, 4166, 1445, 1221, 2971, 1222, 2278, 1722, 2832,
            4000, 5944, 778, 3000, 833, 1278, 3499, 3445, 1444, 1278, 2721, 833,
            4777, 3416, 333, 2165, 778, 3055, 1833, 5944, 611, 4082>>),
       Seg("", <<>>),
       Seg("Under penalty of perjury under the laws ~",
         <<2499, 2944, 833, 2888, 2277, 1222, 1833, 833, 1222, 2000, 833, 5083,
            333, 2610, 1500, 1222, 4722, 3555, 778, 1445, 2888, 667, 1555, 1444,
            3026>>) >>

FeeBody ==
    << S_Canvas,
       S_SetTitle(<<"Fee Waiver Request - Bo Shang">>),
       S_Geometry,
       S_SetFont("Times-Roman", 1200),
       S_SetFont("Times-Bold", 1400),
       S_DrawString(<<"Fee Waiver Request">>),
       S_SetFont("Times-Roman", 1200),
       S_Move(2),
       S_Multiline(text_court),
       S_Move(1),
       S_Multiline(text_statement),
       S_Move(2),
       S_DrawString(<<"Signature (on behalf of Applicant): ____~">>),
       S_Move(1),
       S_DrawString(<<"Signed By: /s/ Bo Shang">>),
       S_ShowPage,
       S_Save >>

\* stringWidth of a string of relative width a at the given font size
StringWidth(a, fontSize) == a * fontSize

\* one turn of the loop of _simpleSplit, for word i of width lt after a space of
\* width sp: the word goes on the current line O when it fits or the line is
\* empty, else the line is closed and the word starts the next one
TakeWord(p, i, lt, sp, maxWidth) ==
    IF p.w + sp + lt <= maxWidth * 1000 \/ p.O = <<>>
    THEN [L |-> p.L, O |-> Append(p.O, i), w |-> p.w + sp + lt]
    ELSE [L |-> Append(p.L, p.O), O |-> <<i>>, w |-> lt]

\* _simpleSplit: the lines of a segment, each the positions of its words (the
\* words are folded by halves: words lo..hi from state st)
SplitWords(ws, fontSize, maxWidth) ==
    LET sp == StringWidth(250, fontSize)
        n == Len(ws)
        Fold[lo \in 1..(n + 1), hi \in 0..n, st \in [L : Seq(Seq(Nat)), O : Seq(Nat), w : Int]] ==
            IF lo > hi THEN st
            ELSE IF lo = hi
                 THEN TakeWord(st, lo, StringWidth(ws[lo], fontSize), sp, maxWidth)
                 ELSE Fold[((lo + hi) \div 2) + 1, hi, Fold[lo, (lo + hi) \div 2, st]]
        end == Fold[1, n, [L |-> <<>>, O |-> <<>>, w |-> 0 - sp]]
    IN  IF end.O # <<>> THEN Append(end.L, end.O) ELSE end.L

\* the lines of one segment; an empty segment has none
SegLines(seg, fontSize, maxWidth) ==
    LET L == SplitWords(seg.words, fontSize, maxWidth)
    IN  [j \in DOMAIN L |-> [text |-> seg.text, part |-> j, words |-> L[j]]]

\* simpleSplit(text, "Times-Roman", fontSize, maxWidth): split at newlines, then
\* wrap each segment
simpleSplit(segs, fontSize, maxWidth) ==
    LET Lines[i \in 0..Len(segs)] ==
            IF i = 0 THEN <<>> ELSE Lines[i - 1] \o SegLines(segs[i], fontSize, maxWidth)
    IN  Lines[Len(segs)]

\* lines = simpleSplit(text, "Times-Roman", 12, max_width) in draw_multiline_text
WrappedLines(segs) == simpleSplit(segs, 1200, max_width)

(***************************************************************************)
(* The statements one invocation executes: the entry point, the generator   *)
(* function it calls, and what the entry point does after the call returns. *)
(***************************************************************************)
\* the opening of generate_fee_waiver_request (canvas, title, geometry, body font), then
\* draw_multiline_text called on an arbitrary text, the cursor some lines down
LinesBody(arg) ==
    << S_Canvas,
       S_SetTitle(<<"Fee Waiver Request - Bo Shang">>),
       S_Geometry,
       S_SetFont("Times-Roman", 1200),
       S_Move(arg.y_skip),
       S_Multiline(arg.segs) >>

Prog(g) ==
    CASE g = "complaint" -> <<S_Main>> \o ComplaintBody
      [] g = "cover" -> <<S_Main>> \o CoverBody
      [] g = "fee" -> <<S_Main>> \o FeeBody \o <<S_PrintAbs>>
      [] g = "lines" -> LinesBody(textArg)

(***************************************************************************)
(* Entry points.                                                           *)
(***************************************************************************)
ScriptName(g) == IF g = "complaint" THEN "gen_complaint.py"
                 ELSE IF g = "cover" THEN "gen_cover.py" ELSE "gen_fee_waiver.py"

\* a changed main(): the argument is not read
ComplaintOutputFile_ignoresArgv(argv) == DefaultComplaint

\* gen_complaint.py main(): the default, replaced by sys.argv[1] when there is one
ComplaintOutputFile(argv) == IF Len(argv) > 1 THEN argv[2] ELSE DefaultComplaint

\* gen_cover.py __main__: the literal, whatever the arguments
CoverOutputFile(argv) == DefaultCover

\* gen_fee_waiver.py main(): the literal, whatever the arguments
FeeOutputFile(argv) == DefaultFee

OutputFile(g, argv) ==
    CASE g = "complaint" -> ComplaintOutputFile(argv)
      [] g = "cover" -> CoverOutputFile(argv)
      [] g = "fee" -> FeeOutputFile(argv)

\* print(f"PDF generated successfully: {output_filename}")
SuccessMessage(path) == <<"PDF generated successfully: ">> \o path

\* a changed message: the directory instead of the file
FeeReportedPath_cwdOnly(d, path) == d

\* the path interpolated by gen_fee_waiver.py main()
FeeReportedPath(d, path) == Abspath(d, path)

\* print(f"PDF generated and saved as: {os.path.abspath(output_pdf)}")
FeeMessage(d, path) == <<"PDF generated and saved as: ">> \o FeeReportedPath(d, path)

(***************************************************************************)
(* The renderer (reportlab's SimpleDocTemplate.build), as far as the        *)
(* generators' contract with it goes: flowables are placed in order, a      *)
(* flowable that does not fit the rest of the page starts the next page,    *)
(* and a PageBreak ends the page it is on.  Heights are the layout          *)
(* engine's, chosen per kind of flowable at build time.                     *)
(***************************************************************************)
PageHeight == 2 * MaxBlockHeight + 1

HeightProfiles == [{"Paragraph", "Spacer", "Table"} -> 1..MaxBlockHeight]

\* a changed renderer: a PageBreak takes no room and ends nothing
PlaceBlock_ignoresBreak(st, b, H) ==
    IF b.kind = "PageBreak"
    THEN [page |-> st.page, used |-> st.used, of |-> Append(st.of, st.page)]
    ELSE IF st.used > 0 /\ st.used + H[b.kind] > PageHeight
         THEN [page |-> st.page + 1, used |-> H[b.kind], of |-> Append(st.of, st.page + 1)]
         ELSE [page |-> st.page, used |-> st.used + H[b.kind], of |-> Append(st.of, st.page)]

PlaceBlock(st, b, H) ==
    IF b.kind = "PageBreak"
    THEN [page |-> st.page + 1, used |-> 0, of |-> Append(st.of, st.page)]
    ELSE IF st.used > 0 /\ st.used + H[b.kind] > PageHeight
         THEN [page |-> st.page + 1, used |-> H[b.kind], of |-> Append(st.of, st.page + 1)]
         ELSE [page |-> st.page, used |-> st.used + H[b.kind], of |-> Append(st.of, st.page)]

\* the layout state after the first n flowables of the list, placed in order
\* (the list is folded by halves: flowables lo..hi from state st)
Paginate(blocks, H, n) ==
    LET Fold[lo \in 1..(n + 1), hi \in 0..n, st \in [page : Nat, used : Nat, of : Seq(Nat)]] ==
            IF lo > hi THEN st
            ELSE IF lo = hi THEN PlaceBlock(st, blocks[lo], H)
            ELSE Fold[((lo + hi) \div 2) + 1, hi, Fold[lo, (lo + hi) \div 2, st]]
    IN  Fold[1, n, [page |-> 1, used |-> 0, of |-> <<>>]]

\* the page number of every flowable of the list
PageNumbers(blocks, H) == Paginate(blocks, H, Len(blocks)).of

\* a changed call site: the exception is caught and the run goes on
RenderOutcome_swallow(ok, p) ==
    [pc |-> p + 1, status |-> "running", error |-> IF ok THEN "" ELSE "RenderError"]

\* where control goes after doc.build / pdf.save: on, or out with the exception
RenderOutcome(ok, p) ==
    IF ok THEN [pc |-> p + 1, status |-> "running", error |-> ""]
    ELSE [pc |-> p, status |-> "raised", error |-> "RenderError"]

\* what the script hands to doc.build / pdf.save: the document settings and title
\* it set, and the list of flowables or the drawing calls it made
RenderedContent(d, body) ==
    [settings |-> d.kw, title |-> d.title, body |-> body]

\* the file system after the content has been written to the path
WriteFile(fs, path, content) == (path :> content) @@ fs

(***************************************************************************)
(* State machine.                                                          *)
(***************************************************************************)
Generators == {"complaint", "cover", "fee"}

PathArgs == { <<"out.pdf">>, <<"/", "tmp", "/", "c.pdf">>, <<"..", "/", "o.pdf">>,
              <<"/", "/", "srv", "/", "o.pdf">> }

ArgLists == UNION {[1..n -> PathArgs] : n \in 0..MaxArgs}

WorkDirs == { <<"/", "home", "/", "bo">>, <<"/">> }

x_left == Inch

inputs == <<gen, sys_argv, cwd, textArg>>
\* the font of a canvas on which setFont was not called
InitialFont == [name |-> "Helvetica", size |-> 1200]

styleState == <<styleObjs, bind>>
storyState == <<story, appendLog, tables>>
renderState == <<submitted, buildCalls, pageOf, files>>
canvasState == <<font, y_top, y_local, draws, showPages>>
processState == <<calls, written, history>>

\* no text argument: the generators take none
NoText == [y_skip |-> 0, segs |-> <<>>]

Fresh ==
    /\ pc = 1 /\ status = "running" /\ error = ""
    /\ output_file = <<>> /\ doc = <<>>
    /\ styleObjs = <<>> /\ bind = <<>>
    /\ story = <<>> /\ appendLog = <<>> /\ tables = <<>> /\ loopIdx = 0
    /\ submitted = <<>> /\ buildCalls = 0 /\ pageOf = <<>> /\ files = {}
    /\ printed = <<>>
    /\ font = InitialFont
    /\ y_top = 0 /\ y_local = 0 /\ draws = <<>> /\ showPages = 0
    /\ trace = <<>>
    /\ calls = 1 /\ written = <<>> /\ history = <<>>

Init ==
    /\ gen \in Generators
    /\ sys_argv \in {<<ScriptName(gen)>> \o a : a \in ArgLists}
    /\ cwd \in WorkDirs
    /\ textArg = NoText
    /\ Fresh

Running == status = "running" /\ pc <= Len(Prog(gen))

Stmt == Prog(gen)[pc]

Advance == pc' = pc + 1 /\ status' = status /\ error' = error

Raise(e) == pc' = pc /\ status' = "raised" /\ error' = e

Did(kind) == trace' = Append(trace, kind)

\* main() / __main__: resolve the output path and call the generator function
Main ==
    /\ Running /\ Stmt.op = "main"
    /\ output_file' = OutputFile(gen, sys_argv)
    /\ Advance /\ Did("main")
    /\ UNCHANGED <<inputs, processState, doc, styleState, storyState, loopIdx, renderState, printed,
                   canvasState>>

\* doc = SimpleDocTemplate(output_filename, ...)
CreateDoc ==
    /\ Running /\ Stmt.op = "doc"
    /\ doc' = <<[filename |-> output_file, kw |-> Stmt.kw, title |-> <<>>]>>
    /\ Advance /\ Did("doc")
    /\ UNCHANGED <<inputs, processState, output_file, styleState, storyState, loopIdx, renderState,
                   printed, canvasState>>

\* a changed generator: the sample sheet is made once, outside the function, and kept
GetSampleStyleSheet_shared ==
    /\ Running /\ Stmt.op = "sheet"
    /\ styleObjs' = IF styleObjs = <<>> THEN SampleStyles(0) ELSE styleObjs
    /\ bind' = SampleBindings(0) @@ bind
    /\ Advance /\ Did("style")
    /\ UNCHANGED <<inputs, processState, output_file, doc, storyState, loopIdx, renderState, printed,
                   canvasState>>

\* styles = getSampleStyleSheet()
GetSampleStyleSheet ==
    /\ Running /\ Stmt.op = "sheet"
    /\ styleObjs' = styleObjs \o SampleStyles(Len(styleObjs))
    /\ bind' = SampleBindings(Len(styleObjs)) @@ bind
    /\ Advance /\ Did("style")
    /\ UNCHANGED <<inputs, processState, output_file, doc, storyState, loopIdx, renderState, printed,
                   canvasState>>

\* style_normal = styles["Normal"]
AliasStyle ==
    /\ Running /\ Stmt.op = "alias"
    /\ IF Stmt.ref \in DOMAIN bind
       THEN bind' = Bind(bind, Stmt.var, bind[Stmt.ref]) /\ Advance
       ELSE bind' = bind /\ Raise("KeyError")
    /\ Did("style")
    /\ UNCHANGED <<inputs, processState, output_file, doc, styleObjs, storyState, loopIdx, renderState,
                   printed, canvasState>>

\* style_x = ParagraphStyle(name=..., parent=..., ...)
DefineParagraphStyle ==
    /\ Running /\ Stmt.op = "style"
    /\ IF Stmt.parent \in DOMAIN bind
       THEN /\ styleObjs' = DefineStyle(styleObjs, Stmt.name, bind[Stmt.parent], Stmt.kw)
            /\ bind' = Bind(bind, Stmt.var, Len(styleObjs'))
            /\ Advance
       ELSE UNCHANGED styleState /\ Raise("NameError")
    /\ Did("style")
    /\ UNCHANGED <<inputs, processState, output_file, doc, storyState, loopIdx, renderState, printed,
                   canvasState>>

\* story = []
NewList ==
    /\ Running /\ Stmt.op = "list"
    /\ story' = <<>> /\ appendLog' = <<>>
    /\ Advance /\ Did("list")
    /\ UNCHANGED <<inputs, processState, output_file, doc, styleState, tables, loopIdx, renderState,
                   printed, canvasState>>

\* story.append(Paragraph(...) | Spacer(...) | PageBreak())
AppendBlock ==
    /\ Running /\ Stmt.op = "append"
    /\ IF Resolves(Stmt.block, bind)
       THEN /\ story' = ListAppend(story, Evaluate(Stmt.block, bind))
            /\ appendLog' = Append(appendLog, Evaluate(Stmt.block, bind))
            /\ Advance
       ELSE UNCHANGED <<story, appendLog>> /\ Raise("NameError")
    /\ Did("block")
    /\ UNCHANGED <<inputs, processState, output_file, doc, styleState, tables, loopIdx, renderState,
                   printed, canvasState>>

\* content.append(case_info_table)
AppendVar ==
    /\ Running /\ Stmt.op = "appendVar"
    /\ IF Stmt.var \in DOMAIN tables
       THEN /\ story' = ListAppend(story, TableRef(Stmt.var))
            /\ appendLog' = Append(appendLog, TableRef(Stmt.var))
            /\ Advance
       ELSE UNCHANGED <<story, appendLog>> /\ Raise("NameError")
    /\ Did("append")
    /\ UNCHANGED <<inputs, processState, output_file, doc, styleState, tables, loopIdx, renderState,
                   printed, canvasState>>

\* for bp in bullet_points: story.append(Paragraph(f"(bullet) {bp}", style)), one item
BulletLoopIter ==
    /\ Running /\ Stmt.op = "for"
    /\ loopIdx < Len(Stmt.items)
    /\ LET b == BulletParagraph(Stmt.items[loopIdx + 1], Stmt.styleRef)
       IN  IF Resolves(b, bind)
           THEN /\ story' = ListAppend(story, Evaluate(b, bind))
                /\ appendLog' = Append(appendLog, Evaluate(b, bind))
                /\ loopIdx' = loopIdx + 1
                /\ UNCHANGED <<pc, status, error>>
           ELSE UNCHANGED <<story, appendLog, loopIdx>> /\ Raise("NameError")
    /\ Did("block")
    /\ UNCHANGED <<inputs, processState, output_file, doc, styleState, tables, renderState, printed,
                   canvasState>>

\* the for loop has visited every item
BulletLoopExit ==
    /\ Running /\ Stmt.op = "for"
    /\ loopIdx = Len(Stmt.items)
    /\ loopIdx' = 0
    /\ Advance
    /\ UNCHANGED <<inputs, processState, output_file, doc, styleState, storyState, renderState, printed,
                   canvasState, trace>>

\* x_data = [[Paragraph, Paragraph], ...]; x_table = Table(x_data, hAlign=, colWidths=)
CreateTable ==
    /\ Running /\ Stmt.op = "table"
    /\ IF RowsResolve(Stmt.data, bind)
       THEN /\ tables' = (Stmt.var :> Table(EvaluateRows(Stmt.data, bind), Stmt.kw)) @@ tables
            /\ Advance
       ELSE UNCHANGED tables /\ Raise("NameError")
    /\ Did("table")
    /\ UNCHANGED <<inputs, processState, output_file, doc, styleState, story, appendLog, loopIdx,
                   renderState, printed, canvasState>>

\* x_table.setStyle(TableStyle([...])): the commands are added to the table's
TableSetStyle ==
    /\ Running /\ Stmt.op = "setStyle"
    /\ IF Stmt.var \in DOMAIN tables
       THEN /\ tables' = [tables EXCEPT ![Stmt.var] = setStyle(@, Stmt.cmds)]
            /\ Advance
       ELSE UNCHANGED tables /\ Raise("NameError")
    /\ Did("tableStyle")
    /\ UNCHANGED <<inputs, processState, output_file, doc, styleState, story, appendLog, loopIdx,
                   renderState, printed, canvasState>>

\* what is put back in front of the list when a flowable is split over two pages
Remainder(b) ==
    [b EXCEPT !.kind = IF b.kind = "Table" THEN "Table (rest)" ELSE "Paragraph (rest)"]

\* the list after doc.build: the renderer takes every flowable off the list it is
\* given, so the list is empty when build returns; when build raises, the
\* flowables not yet taken are left, behind the rest of a split one if any
Leftover(list, ok) ==
    IF ok THEN {<<>>}
    ELSE {SubSeq(list, i + 1, Len(list)) : i \in 0..Len(list)}
         \cup {<<Remainder(list[i])>> \o SubSeq(list, i + 1, Len(list)) :
                   i \in {j \in DOMAIN list : list[j].kind \in {"Paragraph", "Table"}}}

\* doc.build(story): lays the list out and writes the file, or raises
Build ==
    /\ Running /\ Stmt.op = "build"
    /\ \E ok \in BOOLEAN, H \in HeightProfiles :
          /\ submitted' = story
          /\ story' \in Leftover(story, ok)
          /\ buildCalls' = buildCalls + 1
          /\ pageOf' = IF ok THEN PageNumbers(story, H) ELSE <<>>
          /\ files' = IF ok THEN files \cup {doc[1].filename} ELSE files
          /\ written' =
                IF ok
                THEN WriteFile(written, doc[1].filename,
                               RenderedContent(doc[1], StoryValue(story, styleObjs, tables)))
                ELSE written
          /\ pc' = RenderOutcome(ok, pc).pc
          /\ status' = RenderOutcome(ok, pc).status
          /\ error' = RenderOutcome(ok, pc).error
    /\ Did("render")
    /\ UNCHANGED <<inputs, calls, history, output_file, doc, styleState, appendLog, tables, loopIdx,
                   printed, canvasState>>

\* print(f"PDF generated successfully: {output_filename}")
PrintMessage ==
    /\ Running /\ Stmt.op = "print"
    /\ printed' = Append(printed, SuccessMessage(output_file))
    /\ Advance /\ Did("print")
    /\ UNCHANGED <<inputs, processState, output_file, doc, styleState, storyState, loopIdx, renderState,
                   canvasState>>

\* pdf = canvas.Canvas(output_path, pagesize=LETTER): a new canvas, nothing drawn,
\* the default font
CreateCanvas ==
    /\ Running /\ Stmt.op = "canvas"
    /\ doc' = <<[filename |-> output_file,
                 kw |-> [pagesize |-> <<LetterWidth, LetterHeight>>], title |-> <<>>]>>
    /\ font' = InitialFont
    /\ draws' = <<>> /\ showPages' = 0
    /\ Advance /\ Did("doc")
    /\ UNCHANGED <<inputs, processState, output_file, styleState, storyState, loopIdx, renderState,
                   printed, y_top, y_local>>

\* pdf.setTitle(...)
SetTitle ==
    /\ Running /\ Stmt.op = "setTitle"
    /\ doc' = <<[doc[1] EXCEPT !.title = Stmt.text]>>
    /\ Advance /\ Did("meta")
    /\ UNCHANGED <<inputs, processState, output_file, styleState, storyState, loopIdx, renderState,
                   printed, canvasState>>

\* x_left = inch; y_top = height - inch; line_spacing = 14
SetGeometry ==
    /\ Running /\ Stmt.op = "geometry"
    /\ y_top' = LetterHeight - Inch
    /\ Advance /\ Did("geometry")
    /\ UNCHANGED <<inputs, processState, output_file, doc, styleState, storyState, loopIdx, renderState,
                   printed, font, y_local, draws, showPages>>

\* pdf.setFont(name, size)
SetFont ==
    /\ Running /\ Stmt.op = "setFont"
    /\ font' = [name |-> Stmt.name, size |-> Stmt.size]
    /\ Advance /\ Did("font")
    /\ UNCHANGED <<inputs, processState, output_file, doc, styleState, storyState, loopIdx, renderState,
                   printed, y_top, y_local, draws, showPages>>

\* pdf.drawString(x_left, y_top, text)
DrawString ==
    /\ Running /\ Stmt.op = "drawString"
    /\ draws' = Append(draws, [x |-> x_left, y |-> y_top,
                               line |-> [text |-> Stmt.text, part |-> 0, words |-> <<>>], font |-> font])
    /\ Advance /\ Did("draw")
    /\ UNCHANGED <<inputs, processState, output_file, doc, styleState, storyState, loopIdx, renderState,
                   printed, font, y_top, y_local, showPages>>

\* a changed statement: the cursor is left where it is
MoveCursor_stays ==
    /\ Running /\ Stmt.op = "move"
    /\ Advance /\ Did("move")
    /\ UNCHANGED <<inputs, processState, output_file, doc, styleState, storyState, loopIdx, renderState,
                   printed, canvasState>>

\* y_top -= k * line_spacing
MoveCursor ==
    /\ Running /\ Stmt.op = "move"
    /\ y_top' = y_top - Stmt.lines * LineSpacing
    /\ Advance /\ Did("move")
    /\ UNCHANGED <<inputs, processState, output_file, doc, styleState, storyState, loopIdx, renderState,
                   printed, font, y_local, draws, showPages>>

\* y_top = draw_multiline_text(pdf, text, x_left, y_top): the call binds y
\* (loopIdx = 0: not called yet; loopIdx = k >= 1: line k is next)
DrawMultilineEnter ==
    /\ Running /\ Stmt.op = "multiline"
    /\ loopIdx = 0
    /\ y_local' = y_top
    /\ loopIdx' = 1
    /\ UNCHANGED <<pc, status, error>>
    /\ UNCHANGED <<inputs, processState, output_file, doc, styleState, storyState, renderState, printed,
                   font, y_top, draws, showPages, trace>>

\* a changed loop body: y -= line_spacing; c.drawString(x, y, line)
DrawMultilineLine_movesFirst ==
    /\ Running /\ Stmt.op = "multiline"
    /\ loopIdx >= 1
    /\ loopIdx <= Len(WrappedLines(Stmt.segs))
    /\ draws' = Append(draws, [x |-> x_left, y |-> y_local - LineSpacing,
                               line |-> WrappedLines(Stmt.segs)[loopIdx],
                               font |-> font])
    /\ y_local' = y_local - LineSpacing
    /\ loopIdx' = loopIdx + 1
    /\ UNCHANGED <<pc, status, error>>
    /\ Did("draw")
    /\ UNCHANGED <<inputs, processState, output_file, doc, styleState, storyState, renderState, printed,
                   font, y_top, showPages>>

\* for line in lines: c.drawString(x, y, line); y -= line_spacing, one line
DrawMultilineLine ==
    /\ Running /\ Stmt.op = "multiline"
    /\ loopIdx >= 1
    /\ loopIdx <= Len(WrappedLines(Stmt.segs))
    /\ draws' = Append(draws, [x |-> x_left, y |-> y_local,
                               line |-> WrappedLines(Stmt.segs)[loopIdx],
                               font |-> font])
    /\ y_local' = y_local - LineSpacing
    /\ loopIdx' = loopIdx + 1
    /\ UNCHANGED <<pc, status, error>>
    /\ Did("draw")
    /\ UNCHANGED <<inputs, processState, output_file, doc, styleState, storyState, renderState, printed,
                   font, y_top, showPages>>

\* return y, assigned to y_top
DrawMultilineReturn ==
    /\ Running /\ Stmt.op = "multiline"
    /\ loopIdx = Len(WrappedLines(Stmt.segs)) + 1
    /\ y_top' = y_local
    /\ loopIdx' = 0
    /\ Advance
    /\ UNCHANGED <<inputs, processState, output_file, doc, styleState, storyState, renderState, printed,
                   font, y_local, draws, showPages, trace>>

\* pdf.showPage(): ends the page; the next one starts in the initial graphics state
ShowPage ==
    /\ Running /\ Stmt.op = "showPage"
    /\ showPages' = showPages + 1
    /\ font' = InitialFont
    /\ Advance /\ Did("showPage")
    /\ UNCHANGED <<inputs, processState, output_file, doc, styleState, storyState, loopIdx, renderState,
                   printed, y_top, y_local, draws>>

\* pdf.save(): writes the file, or raises
Save ==
    /\ Running /\ Stmt.op = "save"
    /\ \E ok \in BOOLEAN :
          /\ buildCalls' = buildCalls + 1
          /\ files' = IF ok THEN files \cup {doc[1].filename} ELSE files
          /\ written' =
                IF ok
                THEN WriteFile(written, doc[1].filename,
                               RenderedContent(doc[1], [draws |-> draws, pages |-> showPages]))
                ELSE written
          /\ pc' = RenderOutcome(ok, pc).pc
          /\ status' = RenderOutcome(ok, pc).status
          /\ error' = RenderOutcome(ok, pc).error
    /\ Did("render")
    /\ UNCHANGED <<inputs, calls, history, output_file, doc, styleState, storyState, loopIdx,
                   submitted, pageOf, printed, canvasState>>

\* print(f"PDF generated and saved as: {os.path.abspath(output_pdf)}"): a statement
\* of main(), run when the call made by main() returns; output_pdf is main's own
\* name for the path it passed
PrintAbsMessage ==
    /\ Running /\ Stmt.op = "printAbs"
    /\ calls = 1
    /\ printed' = Append(printed, FeeMessage(cwd, output_file))
    /\ Advance /\ Did("print")
    /\ UNCHANGED <<inputs, processState, output_file, doc, styleState, storyState, loopIdx, renderState,
                   canvasState>>

\* the last statement has run: the process exits with status 0
Finish ==
    /\ status = "running" /\ pc = Len(Prog(gen)) + 1
    /\ status' = "done"
    /\ UNCHANGED <<inputs, processState, pc, error, output_file, doc, styleState, storyState, loopIdx,
                   renderState, printed, canvasState, trace>>

Next ==
    \/ Main
    \/ CreateDoc
    \/ GetSampleStyleSheet
    \/ AliasStyle
    \/ DefineParagraphStyle
    \/ NewList
    \/ AppendBlock
    \/ AppendVar
    \/ BulletLoopIter
    \/ BulletLoopExit
    \/ CreateTable
    \/ TableSetStyle
    \/ Build
    \/ PrintMessage
    \/ CreateCanvas
    \/ SetTitle
    \/ SetGeometry
    \/ SetFont
    \/ DrawString
    \/ MoveCursor
    \/ DrawMultilineEnter
    \/ DrawMultilineLine
    \/ DrawMultilineReturn
    \/ ShowPage
    \/ Save
    \/ PrintAbsMessage
    \/ Finish

Spec == Init /\ [][Next]_vars

(***************************************************************************)
(* The generator function called again by the same process, as an importer  *)
(* of the module can: main() has run and returned, and the importer then    *)
(* calls generate_civil_action_pdf(p) / create_civil_cover_sheet(p) /       *)
(* generate_fee_waiver_request(p) itself, with a path.  The new call has a  *)
(* new frame: its local names are unbound until it assigns them.  Objects   *)
(* made by the earlier call (style objects, the list, the files written)    *)
(* are still what they were.  A call made by the importer returns to the    *)
(* importer: the statements of main() after its own call are not run again. *)
(***************************************************************************)
\* the position at which the generator function has returned to its caller
FunctionEnd(g) == IF g = "fee" THEN Len(Prog(g)) ELSE Len(Prog(g)) + 1

\* the position at which the importer has control: main() has returned, or the
\* call the importer made has
ImporterHasControl ==
    /\ status = "running"
    /\ pc = IF calls = 1 THEN Len(Prog(gen)) + 1 ELSE FunctionEnd(gen)

CallAgain ==
    /\ ImporterHasControl
    /\ calls < MaxCalls
    /\ calls' = calls + 1
    /\ history' = Append(history, [path |-> output_file,
                                   story |-> StoryValue(submitted, styleObjs, tables),
                                   objects |-> Len(styleObjs),
                                   draws |-> draws])
    /\ \E p \in {<<"out.pdf">>, output_file} : output_file' = p
    /\ pc' = 2 /\ status' = status /\ error' = error
    /\ bind' = <<>> /\ tables' = <<>> /\ loopIdx' = 0
    /\ doc' = <<>> /\ submitted' = <<>> /\ pageOf' = <<>>
    /\ y_top' = 0 /\ y_local' = 0
    /\ Did("call")
    /\ UNCHANGED <<inputs, written, styleObjs, story, appendLog, buildCalls, files,
                   printed, font, draws, showPages>>

\* the importing process: no command line of its own, one working directory
InitTwice ==
    /\ gen \in Generators
    /\ sys_argv = <<ScriptName(gen)>>
    /\ cwd = <<"/">>
    /\ textArg = NoText
    /\ Fresh

\* the importer makes no further call and exits, where the function it called
\* is not the last thing main() does
ImporterExit ==
    /\ ImporterHasControl /\ calls > 1
    /\ pc <= Len(Prog(gen))
    /\ status' = "done"
    /\ UNCHANGED <<inputs, processState, pc, error, output_file, doc, styleState, storyState, loopIdx,
                   renderState, printed, canvasState, trace>>

NextTwice == Next \/ CallAgain \/ ImporterExit

SpecTwice == InitTwice /\ [][NextTwice]_vars

(***************************************************************************)
(* draw_multiline_text on arbitrary texts: the same machine, started either *)
(* as above or on a canvas with the cursor a few lines below the top margin *)
(* and a text of a few segments, empty ones included.                       *)
(***************************************************************************)
\* widths of a word, in thousandths of the font size: at 12 pt three, two or one of
\* them fill a line of 500 pt, and the last is wider than the line
WordWidths == {13000, 20000, 30000, 51000}

\* segments of up to MaxWords words of one width
Segments == {Seg("a", [i \in 1..n |-> w]) : n \in 0..MaxWords, w \in WordWidths}

Texts == UNION {[1..n -> Segments] : n \in 0..MaxSegs}

InitLines ==
    \/ Init
    \/ /\ gen = "lines"
       /\ sys_argv = <<"python">>
       /\ cwd = <<"/">>
       /\ textArg \in [y_skip : 0..MaxSkip, segs : Texts]
       /\ Fresh

SpecLines == InitLines /\ [][Next]_vars

(***************************************************************************)
(* Properties.                                                             *)
(***************************************************************************)
OneArgument == Len(sys_argv) = 2

NoArguments == Len(sys_argv) = 1

\* the path a message reports: the message without its leading text
ReportedPath(m) == Tail(m)

\* C1 (as stated): in every generator, run with one explicit output path argument P,
\* the artifact is written to exactly P and the printed message contains P.
C1_ExplicitPathHonoured ==
    (status = "done" /\ OneArgument) =>
        /\ files = {sys_argv[2]}
        /\ \E m \in DOMAIN printed : IsInfix(sys_argv[2], printed[m])

\* C1 (amended): with one explicit argument P only the complaint generator writes to
\* exactly P and prints a message containing P; the cover-sheet and fee-waiver
\* generators ignore P, write to their fixed default filename and print a message
\* containing that filename.
C1_OnlyComplaintHonoursPath ==
    (status = "done" /\ OneArgument) =>
        /\ Len(printed) = 1
        /\ gen = "complaint" =>
              files = {sys_argv[2]} /\ IsInfix(sys_argv[2], printed[1])
        /\ gen = "cover" =>
              /\ files = {<<"CivilActionCoverSheet.pdf">>}
              /\ IsInfix(<<"CivilActionCoverSheet.pdf">>, printed[1])
        /\ gen = "fee" =>
              /\ files = {<<"Fee_Waiver_Request_Bo_Shang.pdf">>}
              /\ IsInfix(<<"Fee_Waiver_Request_Bo_Shang.pdf">>, printed[1])

C1_Witness ==
    /\ status = "done" /\ OneArgument /\ gen = "complaint"
    /\ files = {sys_argv[2]}
    /\ sys_argv[2] # <<"CivilActionComplaint.pdf">>
    /\ printed # <<>>

FixedDefault(g) ==
    CASE g = "complaint" -> <<"CivilActionComplaint.pdf">>
      [] g = "cover" -> <<"CivilActionCoverSheet.pdf">>
      [] g = "fee" -> <<"Fee_Waiver_Request_Bo_Shang.pdf">>

\* C2: run with no positional argument, every generator passes its fixed default
\* filename to the document writer, writes there, and reports that same file: the
\* reported path and the path given to the writer resolve to the same location (the
\* fee waiver reports it in absolute form).
C2_DefaultPathWrittenAndReported ==
    NoArguments =>
        /\ doc # <<>> => doc[1].filename = FixedDefault(gen)
        /\ files \subseteq {FixedDefault(gen)}
        /\ status = "done" =>
              /\ files = {FixedDefault(gen)}
              /\ Len(printed) = 1
              /\ Abspath(cwd, ReportedPath(printed[1])) = Abspath(cwd, doc[1].filename)
              /\ gen # "fee" => ReportedPath(printed[1]) = doc[1].filename

C2_Witness ==
    /\ status = "done" /\ NoArguments /\ gen = "fee"
    /\ files = {<<"Fee_Waiver_Request_Bo_Shang.pdf">>}
    /\ Len(printed) = 1
    /\ ReportedPath(printed[1]) # doc[1].filename

\* C3: the list handed to the renderer is exactly the sequence of blocks appended:
\* same length, same order, nothing duplicated, skipped, removed or reordered
\* between the first append and the build call.
C3_SubmittedIsAppended ==
    /\ buildCalls = 0 => story = appendLog
    /\ buildCalls > 0 => submitted = appendLog

C3_Witness ==
    /\ gen = "complaint" /\ buildCalls = 1
    /\ Len(submitted) > 80
    /\ \E i, j \in DOMAIN submitted : i < j /\ submitted[i] = submitted[j]

\* blocks the statements before statement p append
AppendsBefore(prog, p) ==
    LET N[i \in 0..(p - 1)] ==
            IF i = 0 THEN 0
            ELSE N[i - 1]
                 + (IF prog[i].op \in {"append", "appendVar"} THEN 1
                    ELSE IF prog[i].op = "for" THEN Len(prog[i].items) ELSE 0)
    IN  N[p - 1]

\* C4: expanding a bullet list of n strings with style S appends exactly n blocks,
\* one per string, in input order, each the bullet glyph followed by the string and
\* each tagged with S; for every bullet list of the complaint, at every point of
\* its expansion.
C4_BulletListExpansion ==
    (gen = "complaint" /\ status = "running" /\ pc <= Len(Prog(gen)) /\ Stmt.op = "for") =>
        LET base == AppendsBefore(Prog(gen), pc)
        IN  /\ Len(story) = base + loopIdx
            /\ \A k \in 1..loopIdx :
                  /\ story[base + k].kind = "Paragraph"
                  /\ story[base + k].text = <<"(bullet) ">> \o Stmt.items[k]
                  /\ story[base + k].style = bind[Stmt.styleRef]
                  /\ styleObjs[story[base + k].style].name = "BulletedListStyle"

C4_Witness ==
    /\ gen = "complaint" /\ status = "running" /\ pc <= Len(Prog(gen))
    /\ Stmt.op = "for" /\ Len(Stmt.items) = 6 /\ loopIdx = 6
    /\ story[Len(story)].text[1] = "(bullet) "

WellFormedTable(t) == \A r \in DOMAIN t.data : Len(t.data[r]) = Len(t.colWidths)

\* C5: every Table has in every row as many cells as it declares column widths (no
\* MalformedTableError is ever needed), so no table with a mismatched row reaches
\* the renderer.
C5_TablesWellFormed ==
    /\ \A v \in DOMAIN tables : WellFormedTable(tables[v])
    /\ \A i \in DOMAIN submitted :
          submitted[i].kind = "Table" =>
              submitted[i].ref \in DOMAIN tables /\ WellFormedTable(tables[submitted[i].ref])
    /\ error # "MalformedTableError"

C5_Witness ==
    /\ gen = "cover" /\ buildCalls = 1 /\ status = "done"
    /\ Cardinality({i \in DOMAIN submitted : submitted[i].kind = "Table"}) = 5
    /\ \A v \in DOMAIN tables : Len(tables[v].colWidths) = 2 /\ Len(tables[v].data) >= 2

\* C7 (as stated): at render time every block of the sequence references exactly
\* one style, and that style exists.
C7_EveryBlockStyled ==
    buildCalls > 0 => \A i \in DOMAIN submitted : submitted[i].style \in DOMAIN styleObjs

StyledParagraph(b) == b.kind = "Paragraph" /\ b.style \in DOMAIN styleObjs

\* C7 (amended): every Paragraph of the sequence, and every Paragraph in a table
\* cell, references exactly one style, created earlier in the same invocation;
\* Spacer, PageBreak and Table blocks reference no style; no generator ever uses a
\* style reference that does not resolve, so no name lookup fails.
C7_ParagraphsStyled ==
    /\ LET list == IF buildCalls > 0 THEN submitted ELSE story
       IN  \A i \in DOMAIN list :
              IF list[i].kind = "Paragraph" THEN StyledParagraph(list[i])
              ELSE list[i].style = NoStyle
    /\ \A v \in DOMAIN tables : \A r \in DOMAIN tables[v].data :
          \A c \in DOMAIN tables[v].data[r] : StyledParagraph(tables[v].data[r][c])
    /\ buildCalls > 0 => Len(submitted) = Len(appendLog)
    /\ error \notin {"NameError", "KeyError", "UnknownStyleError"}

C7_Witness ==
    /\ gen = "cover" /\ buildCalls = 1 /\ status = "done"
    /\ \E i \in DOMAIN submitted : submitted[i].kind = "Paragraph"
    /\ \E i \in DOMAIN submitted : submitted[i].kind = "Spacer" /\ submitted[i].style = NoStyle
    /\ \E i \in DOMAIN submitted : submitted[i].kind = "Table"

\* Title("X", styleA), Heading("Y", styleB), PageBreak, Paragraph("Z", styleA)
C8_Scenario ==
    << Paragraph(<<"X">>, "styleA"), Paragraph(<<"Y">>, "styleB"), PageBreak,
       Paragraph(<<"Z">>, "styleA") >>

\* C8: a PageBreak forces a new page whatever room is left: the scenario sequence
\* renders to two pages, X and Y on page 1 and Z first on page 2; in every built
\* document the block after a PageBreak is on the next page and first on it.
C8_PageBreakForcesNewPage ==
    /\ \A H \in HeightProfiles : PageNumbers(C8_Scenario, H) = <<1, 1, 1, 2>>
    /\ pageOf # <<>> =>
          /\ Len(pageOf) = Len(submitted)
          /\ \A i \in 1..(Len(submitted) - 1) :
                submitted[i].kind = "PageBreak" =>
                    /\ pageOf[i + 1] = pageOf[i] + 1
                    /\ \A j \in 1..i : pageOf[j] < pageOf[i + 1]

C8_Witness ==
    /\ gen = "complaint" /\ status = "done" /\ pageOf # <<>>
    /\ Cardinality({i \in DOMAIN submitted : submitted[i].kind = "PageBreak"}) = 4
    /\ pageOf[Len(pageOf)] >= 5
    /\ \E i \in DOMAIN submitted :
          submitted[i].kind = "PageBreak" /\ pageOf[i] > 1 /\ pageOf[i + 1] = pageOf[i] + 1

\* what a trace entry stands for: "style" is a named style definition (the sample
\* sheet, an alias of one of its styles, a ParagraphStyle); a table's border and
\* shading rules ("tableStyle") belong to the Table block, and a canvas font
\* ("font") names no style
ContentKinds == {"block", "table", "tableStyle", "append", "draw"}

Count(kind) == Cardinality({i \in DOMAIN trace : trace[i] = kind})

\* the statement just executed (the last of trace) against all before it; every
\* prefix of trace is the trace of an earlier state, so holding in every state this
\* covers every pair of statements
NoStyleAfterContent ==
    (trace # <<>> /\ Last(trace) = "style") =>
        \A i \in DOMAIN trace : trace[i] \notin ContentKinds

NothingAfterRender ==
    (trace # <<>> /\ Last(trace) # "print") =>
        \A i \in 1..(Len(trace) - 1) : trace[i] # "render"

RenderedOnce ==
    /\ Count("render") = buildCalls
    /\ buildCalls <= 1
    /\ status = "done" => buildCalls = 1

\* a for loop has run its body (a bullet loop has visited loopIdx items,
\* draw_multiline_text has drawn loopIdx - 1 lines)
InLoop ==
    /\ status = "running" /\ pc <= Len(Prog(gen))
    /\ \/ Stmt.op = "for" /\ loopIdx >= 1
       \/ Stmt.op = "multiline" /\ loopIdx >= 2

\* main() took the path from the command line instead of its default
BranchTaken == output_file # <<>> /\ output_file # OutputFile(gen, <<sys_argv[1]>>)

\* the statements still to run define no style
StylesDone ==
    \A j \in pc..Len(Prog(gen)) : Prog(gen)[j].op \notin {"sheet", "alias", "style"}

\* C9 (as stated): in every generator every style definition precedes the first
\* content block, every content block precedes the render/write call, and that call
\* happens exactly once, with nothing added after it, and the run neither branches
\* nor loops.
C9_ThreeStages ==
    /\ NoStyleAfterContent /\ NothingAfterRender /\ RenderedOnce
    /\ ~InLoop /\ ~BranchTaken

\* C9 (amended): in every generator every style definition precedes the first
\* content block, every content block precedes the render/write call, and that call
\* happens exactly once, is not retried and is followed by no content.  The run is
\* not straight-line: the content stage loops (the for loops over the bullet lists,
\* the for loop over the wrapped lines), always after the last style definition and
\* before the render/write call, and only the complaint's main() branches, on the
\* command line, before the first stage.
C9_StagesWithLoops ==
    /\ NoStyleAfterContent /\ NothingAfterRender /\ RenderedOnce
    /\ InLoop => (gen \in {"complaint", "fee"} /\ StylesDone /\ buildCalls = 0)
    /\ BranchTaken =>
          (gen = "complaint" /\ Len(sys_argv) > 1 /\ output_file = sys_argv[2])

C9_Witness ==
    /\ gen = "complaint" /\ status = "done"
    /\ BranchTaken
    /\ Count("style") = 8 /\ Count("block") > 80 /\ Count("render") = 1
    /\ Last(trace) = "print"
    /\ Cardinality({i \in DOMAIN submitted :
                       /\ submitted[i].kind = "Paragraph"
                       /\ submitted[i].text[1] = "(bullet) "}) >= 14

\* C10: the confirmation message is printed only after the render/write call has
\* completed successfully, and then always; when the call raises, the error ends
\* the run uncaught, nothing is printed and the call is not made again.
C10_MessageIffRendered ==
    /\ printed # <<>> => (files # {} /\ error = "" /\ buildCalls = 1 /\ Len(printed) = 1)
    /\ status = "done" => (Len(printed) = 1 /\ files # {})
    /\ error = "RenderError" => (status = "raised" /\ printed = <<>> /\ files = {})
    /\ status = "raised" => (printed = <<>> /\ Last(trace) # "print")
    /\ buildCalls <= 1

C10_Witness ==
    /\ status = "raised" /\ error = "RenderError"
    /\ buildCalls = 1 /\ printed = <<>>
    /\ gen = "fee"

\* what exists is still what it was: style objects, blocks in the list, tables
StylesKept == SubSeq(styleObjs', 1, Len(styleObjs)) = styleObjs

BlocksKept == Len(story') >= Len(story) /\ SubSeq(story', 1, Len(story)) = story

Appended(v) == \E i \in DOMAIN story : story[i].kind = "Table" /\ story[i].ref = v

\* C12 (as stated): once a style or a block (a Table included) has been created, no
\* later statement changes it; the only change is the block being appended.
C12_WriteOnce ==
    [][/\ StylesKept
       /\ BlocksKept
       /\ \A v \in DOMAIN tables : tables'[v] = tables[v]]_vars

\* the list keeps its blocks, in place, until doc.build takes them off it
BlocksKeptUntilBuild ==
    \/ BlocksKept
    \/ /\ Running /\ Stmt.op = "build"
       /\ story' \in Leftover(story, status' = "running") /\ submitted' = story

\* C12 (amended): no style and no Paragraph, Spacer or PageBreak block is changed
\* after it has been created, and nothing is changed once it is in the list; a
\* Table is changed once after its creation, by the setStyle call that follows it
\* and precedes its append, which adds the style commands and leaves its cells,
\* column widths and alignment as they were.  The list itself only grows until
\* doc.build, which takes the blocks off it.
C12_WriteOnceExceptTableStyle ==
    [][/\ StylesKept
       /\ BlocksKeptUntilBuild
       /\ \A v \in DOMAIN tables :
             \/ tables'[v] = tables[v]
             \/ /\ Stmt.op = "setStyle" /\ Stmt.var = v
                /\ ~Appended(v)
                /\ tables[v].cmds = <<>>
                /\ tables'[v] = [tables[v] EXCEPT !.cmds = Stmt.cmds]]_vars

C12_Witness ==
    /\ gen = "cover" /\ status = "done"
    /\ Cardinality(DOMAIN tables) = 5
    /\ story = <<>>
    /\ \A v \in DOMAIN tables :
          /\ \E i \in DOMAIN submitted : submitted[i].kind = "Table" /\ submitted[i].ref = v
          /\ tables[v].cmds # <<>> /\ tables[v].data # <<>>

SampleNames == {"Normal", "Heading1", "Heading2", "Title"}

\* a style the generator defines itself, not one of the sample sheet
IsCustom(i) == i \in DOMAIN styleObjs /\ styleObjs[i].name \notin SampleNames

\* every ParagraphStyle(...) statement already executed made an object that holds,
\* for each attribute, the statement's keyword if it gives one and otherwise what
\* the object named as parent holds
OverridesThenBase ==
    \A j \in 1..(pc - 1) :
        (j <= Len(Prog(gen)) /\ Prog(gen)[j].op = "style") =>
            LET st == Prog(gen)[j]
                own == StyleAttrs(styleObjs, bind[st.var])
                base == StyleAttrs(styleObjs, bind[st.parent])
            IN  /\ DOMAIN own = DOMAIN st.kw \cup DOMAIN base
                /\ \A a \in DOMAIN own :
                      own[a] = IF a \in DOMAIN st.kw THEN st.kw[a] ELSE base[a]

\* C13 (as stated): a style takes its own value for every attribute it sets and its
\* base's for every other, and no custom style has as its base another custom style
\* that itself has a base.
C13_ShallowInheritance ==
    /\ OverridesThenBase
    /\ \A i \in DOMAIN styleObjs :
          (IsCustom(i) /\ IsCustom(styleObjs[i].parent)) =>
              styleObjs[styleObjs[i].parent].parent = 0

\* C13 (amended): a style takes its own value for every attribute it sets and its
\* base's for every other; a custom style's base is a sample style or a custom
\* style whose own base is a sample style, so a chain among the custom styles has
\* at most one level and a chain down to the sample sheet's Normal at most two.
C13_InheritanceOneCustomLevel ==
    /\ OverridesThenBase
    /\ \A i \in DOMAIN styleObjs :
          /\ (IsCustom(i) /\ IsCustom(styleObjs[i].parent)) =>
                /\ styleObjs[styleObjs[i].parent].parent \in DOMAIN styleObjs
                /\ ~IsCustom(styleObjs[styleObjs[i].parent].parent)
          /\ Len(Ancestors(styleObjs, i)) <= 2
          /\ IsCustom(i) => Len(Ancestors(styleObjs, i)) >= 1

C13_Witness ==
    /\ gen = "complaint" /\ status = "done"
    /\ LET b == bind["style_bulleted_list"]
       IN  /\ styleObjs[b].name = "BulletedListStyle"
           /\ Ancestors(styleObjs, b) = <<bind["style_paragraph"], bind["styles[Normal]"]>>
           /\ StyleAttrs(styleObjs, b).leftIndent = 4000
           /\ StyleAttrs(styleObjs, b).fontSize = 1050
           /\ StyleAttrs(styleObjs, b).alignment = 4
           /\ StyleAttrs(styleObjs, b).fontName = "Helvetica"

\* the running call has executed its story = [] statement
ListMade ==
    \E i \in DOMAIN trace :
        trace[i] = "list" /\ \A j \in i..Len(trace) : trace[j] # "call"

\* style objects a block of the list, or a cell of one of its tables, refers to
StylesUsed ==
    {story[i].style : i \in {k \in DOMAIN story : story[k].kind = "Paragraph"}}
        \cup UNION {UNION {{tables[v].data[r][c].style : c \in DOMAIN tables[v].data[r]} :
                              r \in DOMAIN tables[v].data} : v \in DOMAIN tables}

\* C14: styles and block list belong to one call of the generator function: a
\* second call in the same process starts from an empty list and its own styles,
\* builds a list equal to the first call's, block for block and no longer, refers
\* to no style object of the first call, and (fee waiver) draws on a new canvas
\* exactly what the first call drew.
C14_StateLocalToCall ==
    calls = 2 =>
        /\ \A v \in DOMAIN bind : bind[v] > history[1].objects
        /\ (ListMade /\ buildCalls = 1) =>
              /\ Len(story) <= Len(history[1].story)
              /\ \A s \in StylesUsed : s > history[1].objects
              /\ \A i \in DOMAIN story :
                    story[i].kind = "Table" => story[i].ref \in DOMAIN tables
              /\ StoryValue(story, styleObjs, tables)
                     = SubSeq(history[1].story, 1, Len(story))
        /\ buildCalls = 2 =>
              /\ gen # "fee" =>
                    /\ status # "raised" => story = <<>>
                    /\ Len(submitted) = Len(history[1].story)
                    /\ StoryValue(submitted, styleObjs, tables) = history[1].story
              /\ gen = "fee" => draws = history[1].draws /\ showPages = 1

C14_Witness ==
    /\ calls = 2 /\ status = "done" /\ gen = "complaint" /\ buildCalls = 2
    /\ Len(submitted) = Len(history[1].story) /\ Len(submitted) > 80
    /\ history[1].objects = 11
    /\ Len(styleObjs) = 22
    /\ submitted[1].style > 11
    /\ story = <<>>

\* draw_multiline_text is running: its loop is at line loopIdx
InCall == Running /\ Stmt.op = "multiline" /\ loopIdx >= 1

\* the last k drawString calls are lines 1..k of the wrapped text, at x and at
\* y, y - 14, y - 28, ... (1400 = 14 pt)
DrewLines(k, lines, x, y) ==
    /\ Len(draws) >= k
    /\ \A j \in 1..k :
          LET d == draws[Len(draws) - k + j]
          IN  d.x = x /\ d.y = y - 1400 * (j - 1) /\ d.line = lines[j]

\* C15: draw_multiline_text, for a text wrapping into n lines and a start (x, y),
\* draws line k = 0..n-1 in wrap order at (x, y - 14k) and returns y - 14n; for
\* n = 0 it draws nothing and returns y.  On arbitrary texts the calls made are
\* exactly these and the returned cursor is y - 14n; in the fee waiver every call
\* under way has drawn its first lines at these positions.
C15_MultilinePositions ==
    /\ (gen = "lines" /\ pc >= Len(LinesBody(textArg))) =>
          LET y == LetterHeight - Inch - 1400 * textArg.y_skip
              lines == WrappedLines(textArg.segs)
              n == Len(lines)
              returned == pc > Len(LinesBody(textArg))
              k == IF returned THEN n ELSE IF loopIdx = 0 THEN 0 ELSE loopIdx - 1
          IN  /\ Len(draws) = k
              /\ DrewLines(k, lines, Inch, y)
              /\ y_top = IF returned THEN y - 1400 * n ELSE y
              /\ (~returned /\ loopIdx >= 1) => y_local = y - 1400 * k
              /\ n = 0 => draws = <<>>
    /\ (gen = "fee" /\ InCall) =>
          /\ DrewLines(loopIdx - 1, WrappedLines(Stmt.segs), Inch, y_top)
          /\ y_local = y_top - 1400 * (loopIdx - 1)

C15_Witness ==
    /\ gen = "lines" /\ status = "done"
    /\ Len(textArg.segs) = 2 /\ textArg.y_skip = 1
    /\ Len(draws) = 3
    /\ draws[1].y = LetterHeight - Inch - 1400
    /\ draws[3].y = draws[1].y - 2800
    /\ y_top = draws[1].y - 4200

\* C16: in the fee waiver every drawString is lower on the page than the one before
\* it, so no two lines share a vertical position; every drawString precedes the
\* one showPage call, which precedes the one save call, and the file written has
\* exactly one page, holding the heading, the wrapped lines of the two texts and
\* the two signature lines.
C16_CursorDescendsOnePage ==
    gen = "fee" =>
        /\ \A i \in 1..(Len(draws) - 1) : draws[i].y > draws[i + 1].y
        /\ \A i, j \in DOMAIN draws : i # j => draws[i].y # draws[j].y
        /\ showPages <= 1 /\ showPages = Count("showPage")
        /\ (trace # <<>> /\ Last(trace) = "draw") => (showPages = 0 /\ buildCalls = 0)
        /\ buildCalls > 0 => (showPages = 1 /\ Last(trace) # "showPage")
        /\ buildCalls <= 1
        /\ \A p \in DOMAIN written :
              /\ written[p].body.pages = 1
              /\ Len(written[p].body.draws)
                    = 3 + Len(WrappedLines(text_court))
                        + Len(WrappedLines(text_statement))

C16_Witness ==
    /\ gen = "fee" /\ status = "done"
    /\ Len(draws) = 21
    /\ draws[Len(draws)].y = LetterHeight - Inch - 24 * LineSpacing
    /\ showPages = 1 /\ buildCalls = 1
    /\ \E p \in DOMAIN written : written[p].body.pages = 1

ExhibitHeadings == <<"EXHIBIT 1:", "EXHIBIT 2:", "EXHIBIT 3:", "EXHIBIT 4:">>

IsBreak(list, i) == i \in DOMAIN list /\ list[i].kind = "PageBreak"

\* how many PageBreaks the first i blocks of the list hold
BreaksUpTo(list, i) == Cardinality({j \in 1..i : IsBreak(list, j)})

IsExhibitHeading(list, i) ==
    /\ i \in DOMAIN list /\ list[i].kind = "Paragraph"
    /\ \E k \in DOMAIN ExhibitHeadings : list[i].text = <<ExhibitHeadings[k]>>

\* C17: the list the complaint hands to the renderer holds exactly four PageBreaks;
\* the k-th is immediately followed by the heading "EXHIBIT k:" (k = 1..4), every
\* exhibit heading is immediately preceded by a PageBreak, and the list neither
\* begins nor ends with a PageBreak.
C17_ExhibitsOpenWithPageBreak ==
    (gen = "complaint" /\ buildCalls > 0) =>
        /\ BreaksUpTo(submitted, Len(submitted)) = 4
        /\ \A i \in DOMAIN submitted :
              /\ IsBreak(submitted, i) =>
                    /\ i + 1 \in DOMAIN submitted
                    /\ submitted[i + 1].kind = "Paragraph"
                    /\ submitted[i + 1].text = <<ExhibitHeadings[BreaksUpTo(submitted, i)]>>
                    /\ styleObjs[submitted[i + 1].style].name = "HeadingStyle"
              /\ IsExhibitHeading(submitted, i) => IsBreak(submitted, i - 1)
        /\ Cardinality({i \in DOMAIN submitted : IsExhibitHeading(submitted, i)}) = 4
        /\ ~IsBreak(submitted, 1) /\ ~IsBreak(submitted, Len(submitted))

C17_Witness ==
    /\ gen = "complaint" /\ status = "done"
    /\ \E i \in DOMAIN submitted :
          /\ IsBreak(submitted, i) /\ BreaksUpTo(submitted, i) = 3
          /\ submitted[i + 1].text = <<"EXHIBIT 3:">>
          /\ i + 3 < Len(submitted)
    /\ submitted[Len(submitted)].kind = "Paragraph"

\* the sum of a table's declared column widths
TotalWidth(t) ==
    LET Sum[i \in 0..Len(t.colWidths)] == IF i = 0 THEN 0 ELSE Sum[i - 1] + t.colWidths[i]
    IN  Sum[Len(t.colWidths)]

\* page width less the left and right margins of the document template
UsableWidth(d) == d.kw.pagesize[1] - d.kw.leftMargin - d.kw.rightMargin

CoverTables == {"case_info_table", "plaintiff_table", "defendant_table", "case_type_table", "pro_se_table"}

\* C18: every table of the cover sheet declares exactly two column widths, 2 in and
\* 4 in, whose sum of 432 pt does not exceed the usable page width, the letter
\* width of 612 pt less the two 72 pt side margins, 468 pt.
C18_TablesFitFrame ==
    gen = "cover" =>
        /\ DOMAIN tables \subseteq CoverTables
        /\ doc # <<>> => UsableWidth(doc[1]) = LetterWidth - 2 * Inch
        /\ \A v \in DOMAIN tables :
              /\ doc # <<>>
              /\ Len(tables[v].colWidths) = 2
              /\ tables[v].colWidths = <<2 * Inch, 4 * Inch>>
              /\ TotalWidth(tables[v]) = 6 * Inch
              /\ TotalWidth(tables[v]) <= UsableWidth(doc[1])
        /\ \A i \in DOMAIN submitted : submitted[i].kind = "Table" => submitted[i].ref \in DOMAIN tables

C18_Witness ==
    /\ gen = "cover" /\ status = "done"
    /\ DOMAIN tables = CoverTables
    /\ {submitted[i].ref : i \in {j \in DOMAIN submitted : submitted[j].kind = "Table"}} = CoverTables
    /\ \A v \in CoverTables : TotalWidth(tables[v]) = 43200 /\ tables[v].cmds # <<>>
    /\ UsableWidth(doc[1]) = 46800

====
